---- MODULE Spec2Model ----
(***************************************************************************)
(* Datavid Celebration Planner (src/main.py): a members table in SQLite,   *)
(* the birth-date validator, the days-until-birthday calculation and the   *)
(* five HTTP handlers (create, list, get, birthday-message, send-email).   *)
(*                                                                         *)
(* Representation.                                                         *)
(*  - A calendar date is a triple <<year, month, day>>.                    *)
(*  - A birth_date TEXT 'YYYY-MM-DD' is the sequence of its integer        *)
(*    fields; a text with another number of fields, or whose fields are    *)
(*    no calendar date, is one that strptime refuses.                      *)
(*  - The members table is the sequence of its rows in rowid order.        *)
(*  - An HTTP response is a record [op, args, status, body].               *)
(***************************************************************************)
EXTENDS Integers, Sequences, FiniteSets, TLC

VARIABLES
    today,            \* the wall clock's date: date.today(), datetime.now()
    members,          \* rows of table members, in rowid order
    sqlite_sequence,  \* AUTOINCREMENT high-water mark of table members
    MOCK_AI,          \* configuration flag read at import (main.py:14)
    emails,           \* number of dispatches done ([EMAIL] print blocks)
    resp,             \* the response of the last request served
    conn,             \* concurrent create requests: client -> its position
    db_lock           \* the client holding SQLite's write lock, 0 when free

vars == <<today, members, sqlite_sequence, MOCK_AI, emails, resp, conn, db_lock>>

----------------------------------------------------------------------------
(* Bounds of the model *)

\* largest rowid the model lets the table hand out
MaxSequence == 13
\* largest number of dispatches counted
MaxEmails == 1
\* number of clients issuing a create concurrently
NumClients == 2

----------------------------------------------------------------------------
(* Calendar arithmetic of datetime.date *)

IsLeap(y) == (y % 4 = 0) /\ ((y % 100 # 0) \/ (y % 400 = 0))

DaysInMonth(y, m) ==
    IF m = 2 THEN (IF IsLeap(y) THEN 29 ELSE 28)
    ELSE IF m \in {4, 6, 9, 11} THEN 30 ELSE 31

\* date(y, m, d) raises ValueError unless this holds
IsDate(y, m, d) ==
    /\ y \in 1..9999
    /\ m \in 1..12
    /\ d >= 1
    /\ d <= DaysInMonth(y, m)

RECURSIVE DaysBeforeMonth(_, _)
DaysBeforeMonth(y, m) ==
    IF m = 1 THEN 0 ELSE DaysBeforeMonth(y, m - 1) + DaysInMonth(y, m - 1)

DaysBeforeYear(y) ==
    365 * (y - 1) + ((y - 1) \div 4) - ((y - 1) \div 100) + ((y - 1) \div 400)

\* date.toordinal(): the difference of two dates is the difference of these
ToOrdinal(dt) == DaysBeforeYear(dt[1]) + DaysBeforeMonth(dt[1], dt[2]) + dt[3]

\* date.__lt__
DateLT(a, b) ==
    \/ a[1] < b[1]
    \/ a[1] = b[1] /\ a[2] < b[2]
    \/ a[1] = b[1] /\ a[2] = b[2] /\ a[3] < b[3]

\* (a, b) < (c, d) on pairs of integers, as Python compares tuples
PairLT(a, b, c, d) == a < c \/ (a = c /\ b < d)

\* datetime.strptime(v, '%Y-%m-%d').date(): the date, or ValueError
strptime(v) ==
    IF Len(v) = 3 /\ IsDate(v[1], v[2], v[3])
    THEN [exc |-> "", date |-> <<v[1], v[2], v[3]>>]
    ELSE [exc |-> "ValueError", date |-> <<>>]

----------------------------------------------------------------------------
(* Date/age engine *)

\* minimum age of a member
AdultAge == 18

\* validate_birth_date with the age taken from the years alone
validate_birth_date_YearsOnly(v) ==
    LET p == strptime(v) IN
    IF p.exc # ""
    THEN [exc |-> "ValueError",
          msg |-> "Birth date must be in YYYY-MM-DD format", age |-> 0, value |-> <<>>]
    ELSE LET age == today[1] - p.date[1]
         IN  IF age < AdultAge
             THEN [exc |-> "ValueError",
                   msg |-> "Member must be at least 18 years old. Current age would be",
                   age |-> age, value |-> <<>>]
             ELSE [exc |-> "", msg |-> "", age |-> age, value |-> v]

\* Member.validate_birth_date: the text unchanged, or ValueError with a message
validate_birth_date(v) ==
    LET p == strptime(v) IN
    IF p.exc # ""
    THEN [exc |-> "ValueError",
          msg |-> "Birth date must be in YYYY-MM-DD format", age |-> 0, value |-> <<>>]
    ELSE LET birth == p.date
             age == today[1] - birth[1]
                    - (IF PairLT(today[2], today[3], birth[2], birth[3]) THEN 1 ELSE 0)
         IN  IF age < AdultAge
             THEN [exc |-> "ValueError",
                   msg |-> "Member must be at least 18 years old. Current age would be",
                   age |-> age, value |-> <<>>]
             ELSE [exc |-> "", msg |-> "", age |-> age, value |-> v]

\* calculate_days_until_birthday: the day count, or the ValueError that
\* date(year, month, day) raises for a day the month does not have
calculate_days_until_birthday(birth_date_str) ==
    LET p == strptime(birth_date_str) IN
    IF p.exc # "" THEN [exc |-> "ValueError", days |-> 0]
    ELSE LET birth == p.date IN
         IF ~IsDate(today[1], birth[2], birth[3])
         THEN [exc |-> "ValueError", days |-> 0]
         ELSE LET this_year == <<today[1], birth[2], birth[3]>> IN
              IF DateLT(this_year, today)
              THEN IF ~IsDate(today[1] + 1, birth[2], birth[3])
                   THEN [exc |-> "ValueError", days |-> 0]
                   ELSE [exc |-> "",
                         days |-> ToOrdinal(<<today[1] + 1, birth[2], birth[3]>>)
                                  - ToOrdinal(today)]
              ELSE [exc |-> "", days |-> ToOrdinal(this_year) - ToOrdinal(today)]

----------------------------------------------------------------------------
(* Persistent store: table members *)

\* the columns of UNIQUE(first_name, last_name, country, city)
UniqueKey(m) == <<m.first_name, m.last_name, m.country, m.city>>

\* a constraint declared without the city column
UniqueViolation_NoCity(rows, m) ==
    \E i \in DOMAIN rows :
        /\ rows[i].first_name = m.first_name
        /\ rows[i].last_name = m.last_name
        /\ rows[i].country = m.country

\* the UNIQUE constraint refuses member m in table rows
UniqueViolation(rows, m) ==
    \E i \in DOMAIN rows : UniqueKey(rows[i]) = UniqueKey(m)

\* the row an INSERT writes: AUTOINCREMENT takes the next rowid, created_at the clock
NewRow(seq, m) ==
    [id |-> seq + 1, first_name |-> m.first_name, last_name |-> m.last_name,
     birth_date |-> m.birth_date, country |-> m.country, city |-> m.city,
     created_at |-> today]

\* SELECT * FROM members WHERE id = ?  (fetchone: the row in a sequence, or none)
SelectById(member_id) ==
    SelectSeq(members, LAMBDA r : r.id = member_id)

sample_members ==
    << [first_name |-> "John", last_name |-> "Smith", birth_date |-> <<1990, 3, 15>>,
        country |-> "USA", city |-> "New York"],
       [first_name |-> "Emma", last_name |-> "Johnson", birth_date |-> <<1985, 7, 22>>,
        country |-> "UK", city |-> "London"],
       [first_name |-> "Hans", last_name |-> "Mueller", birth_date |-> <<1992, 11, 8>>,
        country |-> "Germany", city |-> "Berlin"],
       [first_name |-> "Yuki", last_name |-> "Tanaka", birth_date |-> <<1988, 1, 30>>,
        country |-> "Japan", city |-> "Tokyo"],
       [first_name |-> "Sophie", last_name |-> "Martin", birth_date |-> <<1995, 5, 12>>,
        country |-> "Canada", city |-> "Toronto"],
       [first_name |-> "Raj", last_name |-> "Patel", birth_date |-> <<1987, 9, 25>>,
        country |-> "India", city |-> "Mumbai"] >>

\* seed_data: INSERT OR IGNORE of each sample in turn. Every attempt takes a
\* rowid from the AUTOINCREMENT sequence; an ignored one writes no row.
RECURSIVE SeedFrom(_, _, _)
SeedFrom(i, rows, seq) ==
    IF i > Len(sample_members) THEN [rows |-> rows, seq |-> seq]
    ELSE IF UniqueViolation(rows, sample_members[i])
         THEN SeedFrom(i + 1, rows, seq + 1)
         ELSE SeedFrom(i + 1, Append(rows, NewRow(seq, sample_members[i])), seq + 1)

seed_data(rows, seq) == SeedFrom(1, rows, seq)

----------------------------------------------------------------------------
(* Message generator *)

\* a configured, non-empty credential (its value plays no part)
OPENAI_API_KEY == "sk-configured"

\* COUNTRY_LANGUAGES.get(country, 'en')
CountryLanguage(country) ==
    CASE country \in {"USA", "UK", "Canada", "Australia"} -> "en"
      [] country = "Germany" -> "de"
      [] country = "Japan" -> "ja"
      [] country = "Brazil" -> "pt"
      [] country = "India" -> "hi"
      [] OTHER -> "en"

\* str.lower() on the names the model uses
lower(s) ==
    CASE s = "John" -> "john"     [] s = "Smith" -> "smith"
      [] s = "Emma" -> "emma"     [] s = "Johnson" -> "johnson"
      [] s = "Hans" -> "hans"     [] s = "Mueller" -> "mueller"
      [] s = "Yuki" -> "yuki"     [] s = "Tanaka" -> "tanaka"
      [] s = "Sophie" -> "sophie" [] s = "Martin" -> "martin"
      [] s = "Raj" -> "raj"       [] s = "Patel" -> "patel"
      [] OTHER -> s

\* tone_templates.get(tone, tone_templates["friendly"])
ToneTemplate(member, tone) ==
    IF tone = "formal"
    THEN "Dear " \o member.first_name \o " " \o member.last_name
         \o ", On behalf of Datavid, we wish you a very happy birthday and continued success in the year ahead."
    ELSE " Happy Birthday, " \o member.first_name
         \o "! Wishing you an amazing day filled with joy and laughter from all of us at Datavid!"

\* generate_ai_message. ai is what the external completion call does when the
\* generative branch runs: "ok" (a reply) or "fail" (any exception).
generate_ai_message(member, tone, ai) ==
    IF MOCK_AI \/ OPENAI_API_KEY = ""
    THEN [status |-> 200,
          message |-> ToneTemplate(member, tone),
          explanation |->
            [model |-> "mock-generator-v1",
             method |-> "template_based_generation",
             parameters |-> [tone |-> tone, language |-> CountryLanguage(member.country)],
             rationale |-> "Generated using a rule-based template system with " \o tone
                           \o " tone. Personalized with member's first name and considering cultural context from "
                           \o member.country \o "."]]
    ELSE IF ai = "ok"
         THEN [status |-> 200,
               message |-> "<completion>",
               explanation |->
                 [model |-> "gpt-3.5-turbo",
                  method |-> "chat_completion",
                  parameters |-> [temperature |-> "0.7", tone |-> tone, max_tokens |-> 150],
                  rationale |-> "Generated using OpenAI GPT-3.5 with " \o tone
                                \o " tone setting and temperature 0.7 for creative variation."]]
         ELSE [status |-> 500, message |-> "", explanation |-> "AI generation failed"]

----------------------------------------------------------------------------
(* Request handlers, as the response each computes *)

\* Query(..., pattern="^(friendly|formal)$"): checked before the handler runs
TonePattern(tone) == tone \in {"friendly", "formal"}

\* INSERT OR REPLACE: the conflicting row is deleted and the new one written
Insert_OrReplace(rows, seq, m) ==
    [exc |-> "",
     rows |-> Append(SelectSeq(rows, LAMBDA r : UniqueKey(r) # UniqueKey(m)),
                     NewRow(seq, m)),
     seq |-> seq + 1, lastrowid |-> seq + 1]

\* INSERT INTO members ... ; commit. IntegrityError when the UNIQUE constraint refuses.
Insert(rows, seq, m) ==
    IF UniqueViolation(rows, m)
    THEN [exc |-> "IntegrityError", rows |-> rows, seq |-> seq, lastrowid |-> 0]
    ELSE [exc |-> "", rows |-> Append(rows, NewRow(seq, m)), seq |-> seq + 1,
          lastrowid |-> seq + 1]

\* the body of a 201: {"id": cursor.lastrowid, **member.model_dump()}
CreatedBody(id, m) ==
    [id |-> id, first_name |-> m.first_name, last_name |-> m.last_name,
     birth_date |-> m.birth_date, country |-> m.country, city |-> m.city]

\* validation_exception_handler: 422 with the validator's message
ValidationError(v) ==
    [status |-> 422,
     body |-> [detail |-> [loc |-> "body -> birth_date", msg |-> v.msg, age |-> v.age]]]

\* the HTTPException raised on IntegrityError
ConflictError(m) ==
    [status |-> 400,
     body |-> [detail |-> [msg |-> "already exists", first_name |-> m.first_name,
                           last_name |-> m.last_name, city |-> m.city,
                           country |-> m.country]]]

\* POST /members: the response, and the table and sequence it leaves
create_member(member) ==
    LET v == validate_birth_date(member.birth_date) IN
    IF v.exc # ""
    THEN [response |-> ValidationError(v), rows |-> members, seq |-> sqlite_sequence]
    ELSE LET ins == Insert(members, sqlite_sequence, member) IN
         IF ins.exc # ""
         THEN [response |-> ConflictError(member), rows |-> members,
               seq |-> sqlite_sequence]
         ELSE [response |-> [status |-> 201, body |-> CreatedBody(ins.lastrowid, member)],
               rows |-> ins.rows, seq |-> ins.seq]

\* dict(row) with member_dict['days_until_birthday'] set
WithDays(row) ==
    [id |-> row.id, first_name |-> row.first_name, last_name |-> row.last_name,
     birth_date |-> row.birth_date, country |-> row.country, city |-> row.city,
     created_at |-> row.created_at,
     days_until_birthday |-> calculate_days_until_birthday(row.birth_date).days]

\* response_model MemberResponse: the fields it declares
MemberResponse(m) ==
    [id |-> m.id, first_name |-> m.first_name, last_name |-> m.last_name,
     birth_date |-> m.birth_date, country |-> m.country, city |-> m.city,
     days_until_birthday |-> m.days_until_birthday]

\* members.sort(key=days_until_birthday): ascending and stable, so element i
\* goes after every element with a smaller key and every earlier one with the same
SortRank(ms, i) ==
    Cardinality({ j \in DOMAIN ms :
                    \/ ms[j].days_until_birthday < ms[i].days_until_birthday
                    \/ /\ ms[j].days_until_birthday = ms[i].days_until_birthday
                       /\ j < i }) + 1

SortByDays(ms) ==
    [p \in DOMAIN ms |-> ms[CHOOSE i \in DOMAIN ms : SortRank(ms, i) = p]]

\* the window of the upcoming_only filter, in days
UpcomingDays == 30

Upcoming(ms) == SelectSeq(ms, LAMBDA m : m.days_until_birthday <= UpcomingDays)

\* GET /members
list_members(sort_by_birthday, upcoming_only) ==
    IF \E i \in DOMAIN members :
           calculate_days_until_birthday(members[i].birth_date).exc # ""
    THEN [status |-> 500, body |-> <<>>]
    ELSE LET all == [i \in DOMAIN members |-> WithDays(members[i])]
             filtered == IF upcoming_only THEN Upcoming(all) ELSE all
             sorted == IF sort_by_birthday THEN SortByDays(filtered) ELSE filtered
         IN  [status |-> 200,
              body |-> [i \in DOMAIN sorted |-> MemberResponse(sorted[i])]]

NotFound == [status |-> 404, body |-> [detail |-> "Member not found"]]

\* GET /members/{member_id}
get_member(member_id) ==
    LET row == SelectById(member_id) IN
    IF row = <<>> THEN NotFound
    ELSE IF calculate_days_until_birthday(row[1].birth_date).exc # ""
         THEN [status |-> 500, body |-> <<>>]
         ELSE [status |-> 200, body |-> WithDays(row[1])]

\* birthday-message with the tone checked only after the row is found
generate_birthday_message_LookupFirst(member_id, tone, ai) ==
    LET row == SelectById(member_id) IN
    IF row = <<>> THEN NotFound
    ELSE IF ~TonePattern(tone)
         THEN [status |-> 422,
               body |-> [detail |-> "query -> tone: String should match pattern"]]
         ELSE LET g == generate_ai_message(row[1], tone, ai) IN
              IF g.status # 200
              THEN [status |-> 500, body |-> [detail |-> g.explanation]]
              ELSE [status |-> 200,
                    body |-> [message |-> g.message, explanation |-> g.explanation]]

\* POST /members/{member_id}/birthday-message
generate_birthday_message(member_id, tone, ai) ==
    IF ~TonePattern(tone)
    THEN [status |-> 422, body |-> [detail |-> "query -> tone: String should match pattern"]]
    ELSE LET row == SelectById(member_id) IN
         IF row = <<>> THEN NotFound
         ELSE LET g == generate_ai_message(row[1], tone, ai) IN
              IF g.status # 200
              THEN [status |-> 500, body |-> [detail |-> g.explanation]]
              ELSE [status |-> 200,
                    body |-> [message |-> g.message, explanation |-> g.explanation]]

\* send-email that dispatches whatever dry_run says
send_birthday_email_AlwaysDispatch(member_id, tone, dry_run, ai) ==
    IF ~TonePattern(tone)
    THEN [status |-> 422, dispatched |-> 0,
          body |-> [detail |-> "query -> tone: String should match pattern"]]
    ELSE LET row == SelectById(member_id) IN
         IF row = <<>>
         THEN [status |-> 404, dispatched |-> 0, body |-> NotFound.body]
         ELSE LET member_dict == row[1]
                  g == generate_ai_message(member_dict, tone, ai)
                  email_content ==
                      [to |-> lower(member_dict.first_name) \o "."
                              \o lower(member_dict.last_name) \o "@datavid.com",
                       subject |-> "Happy Birthday, " \o member_dict.first_name \o "!",
                       body |-> g.message,
                       dry_run |-> dry_run]
              IN  IF g.status # 200
                  THEN [status |-> 500, dispatched |-> 0,
                        body |-> [detail |-> g.explanation]]
                  ELSE [status |-> 200, dispatched |-> 1,
                        body |-> [status |-> IF dry_run THEN "dry_run" ELSE "sent",
                                  email |-> email_content,
                                  message |-> "Email sent successfully (simulated)"]]

\* POST /members/{member_id}/send-email: the response and the dispatches done
send_birthday_email(member_id, tone, dry_run, ai) ==
    IF ~TonePattern(tone)
    THEN [status |-> 422, dispatched |-> 0,
          body |-> [detail |-> "query -> tone: String should match pattern"]]
    ELSE LET row == SelectById(member_id) IN
         IF row = <<>>
         THEN [status |-> 404, dispatched |-> 0, body |-> NotFound.body]
         ELSE LET member_dict == row[1]
                  g == generate_ai_message(member_dict, tone, ai)
                  email_content ==
                      [to |-> lower(member_dict.first_name) \o "."
                              \o lower(member_dict.last_name) \o "@datavid.com",
                       subject |-> "Happy Birthday, " \o member_dict.first_name \o "!",
                       body |-> g.message,
                       dry_run |-> dry_run]
              IN  IF g.status # 200
                  THEN [status |-> 500, dispatched |-> 0,
                        body |-> [detail |-> g.explanation]]
                  ELSE IF dry_run
                       THEN [status |-> 200, dispatched |-> 0,
                             body |-> [status |-> "dry_run", email |-> email_content,
                                       message |-> "Email NOT sent (dry-run mode). Email content logged above."]]
                       ELSE [status |-> 200, dispatched |-> 1,
                             body |-> [status |-> "sent", email |-> email_content,
                                       message |-> "Email sent successfully (simulated)"]]

----------------------------------------------------------------------------
(* Inputs of the model *)

\* the dates the clock takes: a leap day and the day after it, a year's last
\* day and the next year's first
Horizon ==
    { <<2024, 2, 29>>, <<2024, 3, 1>>, <<2024, 12, 31>>, <<2025, 1, 1>> }

\* the identities a create request names: a seeded one, the same name in
\* another city, and one with an empty first name
Identities ==
    { [first_name |-> "John", last_name |-> "Smith", country |-> "USA", city |-> "New York"],
      [first_name |-> "John", last_name |-> "Smith", country |-> "USA", city |-> "Boston"],
      [first_name |-> "", last_name |-> "Smith", country |-> "USA", city |-> "Boston"] }

\* birth_date texts: a leap day, a date whose 18th birthday falls inside the
\* horizon, a day February never has, and a text of the wrong shape
BirthTexts ==
    { <<2004, 2, 29>>, <<2006, 3, 1>>, <<2005, 2, 30>>, <<1990>> }

Bodies ==
    { [first_name |-> k.first_name, last_name |-> k.last_name, birth_date |-> b,
       country |-> k.country, city |-> k.city] : k \in Identities, b \in BirthTexts }

\* the tone query parameter as sent; "omitted" takes the default
ToneQueries == {"omitted", "formal", "invalid"}
ToneParam(q) == IF q = "omitted" THEN "friendly" ELSE q

\* the dry_run query parameter as sent; "omitted" takes the default True
DryRunQueries == {"omitted", "true", "false"}
DryRunParam(q) == q # "false"

\* ids asked for: the first row, the newest row, and one never handed out
RequestIds == {1, members[Len(members)].id, sqlite_sequence + 1}

\* what the completion call can do; it is made only when the template
\* branch is not taken
AiOutcomes == IF MOCK_AI \/ OPENAI_API_KEY = "" THEN {"ok"} ELSE {"ok", "fail"}

Clients == 1..NumClients

IdleConn == [pc |-> "idle", member |-> <<>>, row |-> <<>>, status |-> 0]

NoResponse(op) == [op |-> op, args |-> <<>>, status |-> 0, body |-> <<>>]

----------------------------------------------------------------------------
(* The service: one request at a time *)

\* lifespan on a new database: init_db, then seed_data
Started ==
    /\ members = seed_data(<<>>, 0).rows
    /\ sqlite_sequence = seed_data(<<>>, 0).seq
    /\ emails = 0
    /\ resp = NoResponse("startup")
    /\ conn = [c \in Clients |-> IdleConn]
    /\ db_lock = 0

\* the process is started again on the database it left: lifespan once more
Startup ==
    \E r \in {seed_data(members, sqlite_sequence)} :
    /\ r.seq <= MaxSequence
    /\ members' = r.rows
    /\ sqlite_sequence' = r.seq
    /\ resp' = NoResponse("startup")
    /\ UNCHANGED <<today, MOCK_AI, emails, conn, db_lock>>

\* the clock moves on to a later date
Tick ==
    /\ \E t \in Horizon : DateLT(today, t) /\ today' = t
    /\ resp' = NoResponse("tick")
    /\ UNCHANGED <<members, sqlite_sequence, MOCK_AI, emails, conn, db_lock>>

Create(member) ==
    \E r \in {create_member(member)} :
    /\ r.seq <= MaxSequence
    /\ members' = r.rows
    /\ sqlite_sequence' = r.seq
    /\ resp' = [op |-> "create", args |-> member, status |-> r.response.status,
                body |-> r.response.body]
    /\ UNCHANGED <<today, MOCK_AI, emails, conn, db_lock>>

List(sort_by_birthday, upcoming_only) ==
    \E r \in {list_members(sort_by_birthday, upcoming_only)} :
    /\ resp' = [op |-> "list",
                args |-> [sort_by_birthday |-> sort_by_birthday,
                          upcoming_only |-> upcoming_only],
                status |-> r.status, body |-> r.body]
    /\ UNCHANGED <<today, members, sqlite_sequence, MOCK_AI, emails, conn, db_lock>>

Get(member_id) ==
    \E r \in {get_member(member_id)} :
    /\ resp' = [op |-> "get", args |-> [member_id |-> member_id],
                status |-> r.status, body |-> r.body]
    /\ UNCHANGED <<today, members, sqlite_sequence, MOCK_AI, emails, conn, db_lock>>

Generate(member_id, tone_q, ai) ==
    \E r \in {generate_birthday_message(member_id, ToneParam(tone_q), ai)} :
    /\ resp' = [op |-> "generate",
                args |-> [member_id |-> member_id, tone |-> tone_q, ai |-> ai],
                status |-> r.status, body |-> r.body]
    /\ UNCHANGED <<today, members, sqlite_sequence, MOCK_AI, emails, conn, db_lock>>

Send(member_id, tone_q, dry_q, ai) ==
    \E r \in {send_birthday_email(member_id, ToneParam(tone_q), DryRunParam(dry_q), ai)} :
    /\ emails + r.dispatched <= MaxEmails
    /\ emails' = emails + r.dispatched
    /\ resp' = [op |-> "send",
                args |-> [member_id |-> member_id, tone |-> tone_q, dry_run |-> dry_q,
                          ai |-> ai],
                status |-> r.status, body |-> r.body]
    /\ UNCHANGED <<today, members, sqlite_sequence, MOCK_AI, conn, db_lock>>

\* The member directory over time, under the default configuration
\* (MOCK_AI "true"): every handler, the message handlers with default tone.
Init ==
    /\ today \in Horizon
    /\ MOCK_AI = TRUE
    /\ Started

Next ==
    \/ Startup
    \/ Tick
    \/ \E member \in Bodies : Create(member)
    \/ \E s \in BOOLEAN, u \in BOOLEAN : List(s, u)
    \/ \E id \in RequestIds : Get(id)
    \/ \E ai \in AiOutcomes : Generate(members[Len(members)].id, "omitted", ai)
    \/ \E d \in {"omitted", "false"}, ai \in AiOutcomes :
           Send(members[Len(members)].id, "omitted", d, ai)

Spec == Init /\ [][Next]_vars

\* The message handlers under both configurations, on one day, with every
\* tone, dry_run and id input.
InitMessaging ==
    /\ today = <<2024, 3, 1>>
    /\ MOCK_AI \in BOOLEAN
    /\ Started

NextMessaging ==
    \/ \E member \in Bodies : Create(member)
    \/ \E id \in RequestIds : Get(id)
    \/ \E id \in RequestIds, t \in ToneQueries, ai \in AiOutcomes : Generate(id, t, ai)
    \/ \E id \in RequestIds, t \in ToneQueries, d \in DryRunQueries, ai \in AiOutcomes :
           Send(id, t, d, ai)

SpecMessaging == InitMessaging /\ [][NextMessaging]_vars

----------------------------------------------------------------------------
(* calculate_days_until_birthday called on its own, as the tests call it *)

\* every day of a leap year and of the year after it
Calendar ==
    { dt \in {2024, 2025} \X (1..12) \X (1..31) : IsDate(dt[1], dt[2], dt[3]) }

\* a birth date for every month and day a year can have
AnniversaryTexts ==
    { dt \in {2000} \X (1..12) \X (1..31) : IsDate(dt[1], dt[2], dt[3]) }

InitDate ==
    /\ today \in Calendar
    /\ MOCK_AI = TRUE
    /\ members = seed_data(<<>>, 0).rows
    /\ sqlite_sequence = seed_data(<<>>, 0).seq
    /\ emails = 0
    /\ \E b \in AnniversaryTexts :
           resp = [op |-> "call", args |-> b, status |-> 0, body |-> <<>>]
    /\ conn = [c \in Clients |-> IdleConn]
    /\ db_lock = 0

CalcDays ==
    /\ resp.op = "call"
    /\ resp' = [op |-> "calculate_days_until_birthday", args |-> resp.args, status |-> 0,
                body |-> calculate_days_until_birthday(resp.args)]
    /\ UNCHANGED <<today, members, sqlite_sequence, MOCK_AI, emails, conn, db_lock>>

NextDate == CalcDays

SpecDate == InitDate /\ [][NextDate]_vars

----------------------------------------------------------------------------
(* Concurrent create requests: each handler runs in its own thread on its   *)
(* own connection; SQLite lets one connection write at a time.              *)

\* writers that do not exclude one another
CanWrite_Always(lock) == TRUE

\* a connection may start writing when no other holds the write lock
CanWrite(lock) == lock = 0

\* the request body passes or fails Member's validation
Receive(c, member) ==
    /\ conn[c].pc = "idle"
    /\ \E v \in {validate_birth_date(member.birth_date)} :
           conn' = [conn EXCEPT ![c] =
                      IF v.exc # ""
                      THEN [pc |-> "done", member |-> member, row |-> <<>>, status |-> 422]
                      ELSE [pc |-> "insert", member |-> member, row |-> <<>>, status |-> 0]]
    /\ UNCHANGED <<today, members, sqlite_sequence, MOCK_AI, emails, resp, db_lock>>

\* conn.execute(INSERT ...): takes the write lock and checks the constraint
Execute(c) ==
    /\ conn[c].pc = "insert"
    /\ CanWrite(db_lock)
    /\ db_lock' = c
    /\ \E ins \in {Insert(members, sqlite_sequence, conn[c].member)} :
           conn' = [conn EXCEPT ![c] =
                      IF ins.exc # ""
                      THEN [@ EXCEPT !.pc = "integrity_error"]
                      ELSE [@ EXCEPT !.pc = "commit", !.row = <<ins.rows[Len(ins.rows)]>>]]
    /\ UNCHANGED <<today, members, sqlite_sequence, MOCK_AI, emails, resp>>

\* conn.commit(), the 201 response, and the connection's close
Commit(c) ==
    /\ conn[c].pc = "commit"
    /\ members' = Append(members, conn[c].row[1])
    /\ sqlite_sequence' = conn[c].row[1].id
    /\ db_lock' = 0
    /\ conn' = [conn EXCEPT ![c] = [@ EXCEPT !.pc = "done", !.status = 201]]
    /\ UNCHANGED <<today, MOCK_AI, emails, resp>>

\* except sqlite3.IntegrityError: the 400, and the connection's close
Conflict(c) ==
    /\ conn[c].pc = "integrity_error"
    /\ db_lock' = 0
    /\ conn' = [conn EXCEPT ![c] = [@ EXCEPT !.pc = "done", !.status = 400]]
    /\ UNCHANGED <<today, members, sqlite_sequence, MOCK_AI, emails, resp>>

InitConcurrent ==
    /\ today \in Horizon
    /\ MOCK_AI = TRUE
    /\ Started

NextConcurrent ==
    \E c \in Clients :
        \/ \E member \in Bodies : Receive(c, member)
        \/ Execute(c)
        \/ Commit(c)
        \/ Conflict(c)

SpecConcurrent == InitConcurrent /\ [][NextConcurrent]_vars

----------------------------------------------------------------------------
(* Properties.  The helpers below restate what the specification says, in   *)
(* its own terms, so that the handlers above are compared with it.          *)

\* a stored row has the identity of request body m
KeyStored(rows, m) ==
    \E i \in DOMAIN rows :
        /\ rows[i].first_name = m.first_name
        /\ rows[i].last_name = m.last_name
        /\ rows[i].country = m.country
        /\ rows[i].city = m.city

\* no two rows share (first_name, last_name, country, city)
NoDuplicateKeys(rows) ==
    \A i, j \in DOMAIN rows : KeyStored(<<rows[i]>>, rows[j]) => i = j

\* the text is YYYY-MM-DD of a day the calendar has
WellFormed(text) == Len(text) = 3 /\ IsDate(text[1], text[2], text[3])

\* age in whole years: the years' difference, less one before the birthday
SpecAge(d, t) ==
    t[1] - d[1] - (IF t[2] < d[2] \/ (t[2] = d[2] /\ t[3] < d[3]) THEN 1 ELSE 0)

\* the text is well formed and of an adult on day t
ValidAdult(text, t) == WellFormed(text) /\ SpecAge(text, t) >= 18

RowIds(rows) == { rows[i].id : i \in DOMAIN rows }

\* C1 (as stated): no two stored members share (first_name, last_name,
\* country, city); the first Create of an identity with a valid adult birth
\* date succeeds, and a Create of a stored identity fails with 400 "already
\* exists" and leaves the store unchanged whatever birth_date it carries.
C1_AsStated ==
    [][ resp'.op = "create" =>
          /\ NoDuplicateKeys(members')
          /\ (~KeyStored(members, resp'.args) /\ ValidAdult(resp'.args.birth_date, today))
                => resp'.status = 201
          /\ KeyStored(members, resp'.args)
                => /\ resp'.status = 400
                   /\ resp'.body.detail.msg = "already exists"
                   /\ members' = members ]_vars

\* C1 (amended): as stated, except that a Create of a stored identity fails
\* with 400 "already exists" when its birth_date is a valid adult date
\* (whichever), and with the 422 of validation when it is not; the store is
\* unchanged in both cases.
C1_Unique ==
    [][ resp'.op = "create" =>
          /\ NoDuplicateKeys(members')
          /\ (~KeyStored(members, resp'.args) /\ ValidAdult(resp'.args.birth_date, today))
                => resp'.status = 201
          /\ KeyStored(members, resp'.args)
                => /\ members' = members
                   /\ ValidAdult(resp'.args.birth_date, today)
                        => /\ resp'.status = 400
                           /\ resp'.body.detail.msg = "already exists"
                   /\ ~ValidAdult(resp'.args.birth_date, today) => resp'.status = 422 ]_vars

\* C1 witness: an identity was created and a second Create of it, carrying
\* another birth date, was answered 400.
C1_Witness ==
    /\ resp.op = "create"
    /\ resp.status = 400
    /\ resp.args.city = "Boston"
    /\ \E i \in DOMAIN members :
           /\ KeyStored(<<members[i]>>, resp.args)
           /\ members[i].birth_date # resp.args.birth_date

\* C2: a Create of an identity not yet stored, with a well-formed birth date
\* d, succeeds iff age(d, today) >= 18; on success the body carries d and the
\* id of the row the store wrote; under 18 it is a 422 that carries the
\* computed age and writes no row; an 18th birthday today is accepted.
C2_AdultRule ==
    [][ ( /\ resp'.op = "create"
          /\ WellFormed(resp'.args.birth_date)
          /\ ~KeyStored(members, resp'.args) )
        => LET d == resp'.args.birth_date
               age == SpecAge(d, today)
           IN  /\ (resp'.status = 201) <=> (age >= 18)
               /\ age >= 18
                    => /\ resp'.body.birth_date = d
                       /\ Len(members') = Len(members) + 1
                       /\ resp'.body.id = members'[Len(members')].id
                       /\ KeyStored(<<members'[Len(members')]>>, resp'.args)
                       /\ members'[Len(members')].birth_date = d
                       /\ resp'.body.id \notin RowIds(members)
               /\ age < 18
                    => /\ resp'.status = 422
                       /\ resp'.body.detail.msg
                            = "Member must be at least 18 years old. Current age would be"
                       /\ resp'.body.detail.age = age
                       /\ members' = members
               /\ (today[1] - d[1] = 18 /\ today[2] = d[2] /\ today[3] = d[3])
                    => resp'.status = 201 ]_vars

\* C2 witness: a member born 2006-03-01 was accepted on 2024-03-01, the day
\* of the 18th birthday.
C2_Witness ==
    /\ resp.op = "create"
    /\ resp.status = 201
    /\ resp.args.birth_date = <<2006, 3, 1>>
    /\ today = <<2024, 3, 1>>
    /\ members[Len(members)].birth_date = <<2006, 3, 1>>

\* C3: a Create with an empty first_name or last_name is rejected and writes
\* nothing, so every stored member has non-empty names.
C3_NonEmptyNames ==
    /\ \A i \in DOMAIN members :
           members[i].first_name # "" /\ members[i].last_name # ""
    /\ (resp.op = "create" /\ (resp.args.first_name = "" \/ resp.args.last_name = ""))
          => resp.status # 201

\* C9: rows are only ever appended and a stored row never changes; List, Get,
\* Generate, Send and a failed Create leave the table as it is; a successful
\* Create appends exactly one row; an id, once given to a row, is given to
\* no other.
C9_AppendOnly ==
    [][ /\ Len(members') >= Len(members)
        /\ \A i \in DOMAIN members : members'[i] = members[i]
        /\ resp'.op \in {"list", "get", "generate", "send"} => members' = members
        /\ (resp'.op = "create" /\ resp'.status # 201) => members' = members
        /\ (resp'.op = "create" /\ resp'.status = 201)
              => Len(members') = Len(members) + 1
        /\ \A j \in DOMAIN members' :
              /\ j \notin DOMAIN members => members'[j].id \notin RowIds(members)
              /\ \A i \in DOMAIN members' : members'[i].id = members'[j].id => i = j ]_vars

\* C9 witness: a row written on an earlier day is in the table when a send
\* that dispatched has just been served.
C9_Witness ==
    /\ resp.op = "send"
    /\ resp.status = 200
    /\ resp.body.status = "sent"
    /\ Len(members) > Len(sample_members)
    /\ members[Len(members)].created_at # today

\* the month and day of a date or of a birth_date text
MonthDay(dt) == <<dt[2], dt[3]>>

\* the day after and the day before a date
Tomorrow(dt) ==
    IF dt[3] < DaysInMonth(dt[1], dt[2]) THEN <<dt[1], dt[2], dt[3] + 1>>
    ELSE IF dt[2] < 12 THEN <<dt[1], dt[2] + 1, 1>>
    ELSE <<dt[1] + 1, 1, 1>>

Yesterday(dt) ==
    IF dt[3] > 1 THEN <<dt[1], dt[2], dt[3] - 1>>
    ELSE IF dt[2] > 1 THEN <<dt[1], dt[2] - 1, DaysInMonth(dt[1], dt[2] - 1)>>
    ELSE <<dt[1] - 1, 12, 31>>

C5_DaysInRange ==
    (resp.op = "calculate_days_until_birthday" /\ WellFormed(resp.args))
        => /\ resp.body.exc = ""
           /\ resp.body.days \in 0..366

\* C6: a birth date with today's month and day gives 0; with tomorrow's
\* month and day gives 1; with yesterday's month and day gives more than 300
\* when yesterday is in today's year.
C6_Boundaries ==
    resp.op = "calculate_days_until_birthday"
        => /\ MonthDay(resp.args) = MonthDay(today)
                => resp.body.exc = "" /\ resp.body.days = 0
           /\ MonthDay(resp.args) = MonthDay(Tomorrow(today))
                => resp.body.exc = "" /\ resp.body.days = 1
           /\ ( /\ MonthDay(resp.args) = MonthDay(Yesterday(today))
                /\ Yesterday(today)[1] = today[1] )
                => resp.body.exc = "" /\ resp.body.days > 300

\* the days the specification counts on day t for a birthday on month and
\* day md: to this year's occurrence, or next year's when this year's is past
SpecDays(md, t) ==
    LET this_year == <<t[1], md[1], md[2]>>
        next_year == <<t[1] + 1, md[1], md[2]>>
    IN  IF this_year = t \/ DateLT(t, this_year)
        THEN ToOrdinal(this_year) - ToOrdinal(t)
        ELSE ToOrdinal(next_year) - ToOrdinal(t)

\* C7: List answers 200; its rows are the stored rows (all of them, or with
\* upcoming_only exactly those at most 30 days ahead), each with its days;
\* in insertion order without sort_by_birthday, in non-decreasing days with it.
C7_List ==
    resp.op = "list"
        => /\ resp.status = 200
           /\ LET body == resp.body
                  kept == { i \in DOMAIN members :
                              resp.args.upcoming_only
                                 => calculate_days_until_birthday(members[i].birth_date).days
                                       <= 30 }
              IN  /\ Len(body) = Cardinality(kept)
                  /\ { body[p].id : p \in DOMAIN body } = { members[i].id : i \in kept }
                  /\ \A p \in DOMAIN body : \A i \in DOMAIN members :
                         members[i].id = body[p].id
                            => /\ body[p].first_name = members[i].first_name
                               /\ body[p].last_name = members[i].last_name
                               /\ body[p].birth_date = members[i].birth_date
                               /\ body[p].country = members[i].country
                               /\ body[p].city = members[i].city
                               /\ body[p].days_until_birthday
                                    = SpecDays(MonthDay(members[i].birth_date), today)
                  /\ resp.args.sort_by_birthday
                        => \A p, q \in DOMAIN body :
                              p < q => body[p].days_until_birthday
                                          <= body[q].days_until_birthday
                  /\ ~resp.args.sort_by_birthday
                        => \A p, q \in DOMAIN body : p < q => body[p].id < body[q].id

\* the stored row with the given id, in a sequence (empty when there is none)
Stored(id) == SelectSeq(members, LAMBDA r : r.id = id)

\* the tone a request carries is one of the two the specification recognises
Recognised(tone_q) == tone_q \in {"omitted", "friendly", "formal"}

\* the tone the handler is given
ToneOf(tone_q) == IF tone_q = "omitted" THEN "friendly" ELSE tone_q

\* C8 (as stated): Get, Generate and Send answer 404 whenever no row has the
\* id, whatever the tone; with the id present and a tone not recognised,
\* Generate and Send answer 422; with the id present and the tone
\* recognised, Generate returns the generator's {message, explanation}.
C8_AsStated ==
    /\ (resp.op \in {"get", "generate", "send"} /\ Stored(resp.args.member_id) = <<>>)
          => resp.status = 404
    /\ ( /\ resp.op \in {"generate", "send"}
         /\ Stored(resp.args.member_id) # <<>>
         /\ ~Recognised(resp.args.tone) )
          => resp.status = 422
    /\ ( /\ resp.op = "generate"
         /\ Stored(resp.args.member_id) # <<>>
         /\ Recognised(resp.args.tone) )
          => /\ resp.status = 200
             /\ LET g == generate_ai_message(Stored(resp.args.member_id)[1],
                                             ToneOf(resp.args.tone), resp.args.ai)
                IN  resp.body = [message |-> g.message, explanation |-> g.explanation]

\* C8 (amended): Get answers 404 when no row has the id.  Generate and Send
\* answer 422 whenever the tone is not recognised, whether or not a row has
\* the id, and 404 when the tone is recognised and no row has the id.  With
\* the id present and the tone recognised, Generate returns the generator's
\* {message, explanation} for that member, or answers 500 when the
\* generator fails.
C8_Errors ==
    /\ (resp.op = "get" /\ Stored(resp.args.member_id) = <<>>) => resp.status = 404
    /\ (resp.op \in {"generate", "send"} /\ ~Recognised(resp.args.tone))
          => resp.status = 422
    /\ ( /\ resp.op \in {"generate", "send"}
         /\ Recognised(resp.args.tone)
         /\ Stored(resp.args.member_id) = <<>> )
          => resp.status = 404
    /\ ( /\ resp.op = "generate"
         /\ Stored(resp.args.member_id) # <<>>
         /\ Recognised(resp.args.tone) )
          => LET g == generate_ai_message(Stored(resp.args.member_id)[1],
                                          ToneOf(resp.args.tone), resp.args.ai)
             IN  IF g.status = 200
                 THEN /\ resp.status = 200
                      /\ resp.body = [message |-> g.message, explanation |-> g.explanation]
                 ELSE resp.status = 500

\* C8 witness: a Generate with an unrecognised tone for an id no row has was
\* answered 422.
C8_Witness ==
    /\ resp.op = "generate"
    /\ resp.args.tone = "invalid"
    /\ Stored(resp.args.member_id) = <<>>
    /\ resp.status = 422

\* the envelope the specification describes for member m and message text
SpecRecipient(m) == lower(m.first_name) \o "." \o lower(m.last_name) \o "@datavid.com"

\* C10 (as stated): a Send for a stored member with a recognised tone, with
\* dry_run true or omitted, dispatches nothing and answers status "dry_run"
\* with email.dry_run true; with dry_run false it dispatches exactly once
\* and answers "sent"; the recipient is lower(first).lower(last)@datavid.com
\* and the body the generated message; a Send answered 404 or 422 never
\* dispatches.
C10_AsStated ==
    [][ resp'.op = "send" =>
          /\ resp'.status \in {404, 422} => emails' = emails
          /\ (Stored(resp'.args.member_id) # <<>> /\ Recognised(resp'.args.tone))
                => /\ resp'.status = 200
                   /\ resp'.body.email.to = SpecRecipient(Stored(resp'.args.member_id)[1])
                   /\ resp'.body.email.body
                        = generate_ai_message(Stored(resp'.args.member_id)[1],
                                              ToneOf(resp'.args.tone), resp'.args.ai).message
                   /\ resp'.args.dry_run \in {"true", "omitted"}
                        => /\ emails' = emails
                           /\ resp'.body.status = "dry_run"
                           /\ resp'.body.email.dry_run = TRUE
                   /\ resp'.args.dry_run = "false"
                        => /\ emails' = emails + 1
                           /\ resp'.body.status = "sent" ]_vars

\* C10 (amended): as stated for every Send whose message generation
\* succeeds; when generation fails the Send answers 500 and dispatches
\* nothing, like a Send answered 404 or 422.
C10_DryRun ==
    [][ resp'.op = "send" =>
          /\ resp'.status \in {404, 422, 500} => emails' = emails
          /\ (Stored(resp'.args.member_id) # <<>> /\ Recognised(resp'.args.tone))
                => LET g == generate_ai_message(Stored(resp'.args.member_id)[1],
                                                ToneOf(resp'.args.tone), resp'.args.ai)
                   IN  IF g.status # 200
                       THEN resp'.status = 500 /\ emails' = emails
                       ELSE /\ resp'.status = 200
                            /\ resp'.body.email.to
                                 = SpecRecipient(Stored(resp'.args.member_id)[1])
                            /\ resp'.body.email.body = g.message
                            /\ resp'.args.dry_run \in {"true", "omitted"}
                                 => /\ emails' = emails
                                    /\ resp'.body.status = "dry_run"
                                    /\ resp'.body.email.dry_run = TRUE
                            /\ resp'.args.dry_run = "false"
                                 => /\ emails' = emails + 1
                                    /\ resp'.body.status = "sent" ]_vars

\* C10 witness: a Send with dry_run false to John Smith was answered "sent",
\* one dispatch was made, and the envelope went to john.smith@datavid.com.
C10_Witness ==
    /\ resp.op = "send"
    /\ resp.args.dry_run = "false"
    /\ resp.status = 200
    /\ resp.body.status = "sent"
    /\ resp.body.email.to = "john.smith@datavid.com"
    /\ emails = 1

====
